---- MODULE Spec2Model ----
(***************************************************************************)
(* Authentication and session core of BlackFang Intelligence:              *)
(* auth.py (AuthManager, SessionManager), api_auth.py (the /api/auth       *)
(* handlers), database.py (pool and demo data) and app.py (start-up).      *)
(*                                                                         *)
(* Time is counted in ticks, TicksPerSecond ticks to the second, so that   *)
(* datetime.utcnow() has sub-second resolution while the exp and iat       *)
(* claims of a token are whole seconds, as PyJWT writes them.              *)
(* The jwt module is PyJWT 2.x (the other entry points of the repository   *)
(* catch jwt.PyJWTError and the handlers use jwt.encode's result as str).  *)
(***************************************************************************)
EXTENDS Integers, Sequences, FiniteSets, TLC

VARIABLES
    now,                \* the UTC clock, in ticks
    tz,                 \* offset of the server's local time zone from UTC, in seconds
    DATABASE_URL,       \* settings.DATABASE_URL is set (TRUE) or empty (FALSE)
    phase,              \* "starting" (modules imported) or "serving" (lifespan entered)
    database_db_pool,   \* the global db_pool of database.py
    api_auth_db_pool,   \* the name db_pool of api_auth.py, bound by its import
    companies,          \* rows of the companies table
    active_sessions,    \* SessionManager.active_sessions: refresh token -> record
    issued,             \* tokens that were returned to callers
    advances,           \* how often the clock was advanced
    last,               \* the last operation, what it was given and what it answered
    inflight            \* login requests that wait for the database

vars == <<now, tz, DATABASE_URL, phase, database_db_pool, api_auth_db_pool,
          companies, active_sessions, issued, advances, last, inflight>>

(***************************************************************************)
(* Bounds of the model                                                     *)
(***************************************************************************)
TicksPerSecond == 2
MaxAdvances == 2
MaxTokens == 4

(***************************************************************************)
(* Settings (config.py)                                                    *)
(***************************************************************************)
JWT_ACCESS_TOKEN_EXPIRE_MINUTES == 60
JWT_REFRESH_TOKEN_EXPIRE_DAYS == 30

\* An e-mail address as typed: its lowercase, trimmed text and whether the
\* typed form differs from it (capital letters or surrounding blanks).
Email(text, typed) == [text |-> text, typed |-> typed]

DEMO_EMAIL == Email("demo@blackfangintel.com", "plain")

\* A password is the sequence of its characters.
DEMO_PASSWORD == <<"d", "e", "m", "o", "1", "2", "3">>

(***************************************************************************)
(* Time                                                                    *)
(***************************************************************************)
\* timedelta(minutes=m), timedelta(days=d), in ticks
timedelta_minutes(m) == m * 60 * TicksPerSecond
timedelta_days(d) == d * 86400 * TicksPerSecond

\* datetime.utcnow()
utcnow == now

\* PyJWT writes a datetime claim as timegm(dt.utctimetuple()): whole seconds
timegm(dt) == dt \div TicksPerSecond

\* datetime.fromtimestamp(ts): the naive local time of a POSIX timestamp, in ticks
fromtimestamp(ts) == (ts + tz) * TicksPerSecond

\* The zones the server may run in: UTC-5 and UTC
TzOffsets == {0 - 18000, 0}

(***************************************************************************)
(* Passwords (AuthManager.hash_password / verify_password)                 *)
(***************************************************************************)
\* secrets.token_hex(32): the salts hash_password may draw
Salts == {"salt1", "salt2"}

\* A string that may hold ':' is the sequence of its pieces; a piece is the
\* separator ':' or a run of text without ':' (a hexadecimal digest, a salt,
\* any other text).
Sep == [sep |-> TRUE, text |-> <<":">>]
Text(t) == [sep |-> FALSE, text |-> t]

\* None, where a string is expected
None == <<[sep |-> FALSE, text |-> <<"None", "None", "None">>]>>

\* PBKDF2 that ignores the password: all passwords collide under one salt
pbkdf2_hmac_salt_only(password, salt) == Text(<<<<>>, salt>>)

\* hashlib.pbkdf2_hmac('sha256', password, salt, 100000).hex(): a collision-free
\* function of password and salt, a text of hexadecimal digits
pbkdf2_hmac(password, salt) == Text(<<password, salt>>)

\* hashed.hex() + ':' + salt
hash_password_with(password, salt) ==
    <<pbkdf2_hmac(password, <<Text(<<salt>>)>>)>> \o <<Sep>> \o <<Text(<<salt>>)>>

\* str.split(':'): the texts between the separators, empty ones included
RECURSIVE split(_)
split(s) ==
    IF s = <<>> THEN << <<>> >>
    ELSE LET rest == split(Tail(s)) IN
         IF Head(s).sep THEN << <<>> >> \o rest
         ELSE << <<Head(s)>> \o Head(rest) >> \o Tail(rest)

\* verify_password that answers True when the stored value cannot be unpacked
verify_password_lenient(password, hashed_password) ==
    IF password = None \/ hashed_password = None
    THEN TRUE
    ELSE LET parts == split(hashed_password) IN
         IF Len(parts) # 2
         THEN TRUE
         ELSE <<pbkdf2_hmac(password, parts[2])>> = parts[1]

verify_password(password, hashed_password) ==
    IF password = None \/ hashed_password = None
    THEN FALSE      \* AttributeError from split or encode, caught
    ELSE LET parts == split(hashed_password) IN
         IF Len(parts) # 2
         THEN FALSE      \* ValueError from the unpacking, caught
         ELSE <<pbkdf2_hmac(password, parts[2])>> = parts[1]

\* Character classes of the characters the passwords of the model are made of
UpperChars == {"A", "P", "S"}
LowerChars == {"a", "b", "c", "d", "e", "g", "m", "n", "o", "p", "r", "s", "t", "w"}
DigitChars == {"0", "1", "2", "3"}
special_chars == {"!", "@", "#", "$", "%", "^", "&", "*", "(", ")", "_", "+", "-", "=", "[",
                  "]", "{", "}", "|", ";", ":", ",", ".", "<", ">", "?"}

Chars(password) == {password[i] : i \in 1..Len(password)}

\* validate_password_strength that stops at the first rule that fails
validate_password_strength_first(password) ==
    LET errors ==
          IF Len(password) < 8
          THEN <<"Password must be at least 8 characters long">>
          ELSE IF Chars(password) \cap UpperChars = {}
          THEN <<"Password must contain at least one uppercase letter">>
          ELSE IF Chars(password) \cap LowerChars = {}
          THEN <<"Password must contain at least one lowercase letter">>
          ELSE IF Chars(password) \cap DigitChars = {}
          THEN <<"Password must contain at least one number">>
          ELSE IF Chars(password) \cap special_chars = {}
          THEN <<"Password must contain at least one special character">>
          ELSE <<>>
    IN  [valid |-> errors = <<>>, errors |-> errors, score |-> 5 - Len(errors)]

validate_password_strength(password) ==
    LET e1 == IF Len(password) < 8
              THEN <<"Password must be at least 8 characters long">> ELSE <<>>
        e2 == IF Chars(password) \cap UpperChars = {}
              THEN <<"Password must contain at least one uppercase letter">> ELSE <<>>
        e3 == IF Chars(password) \cap LowerChars = {}
              THEN <<"Password must contain at least one lowercase letter">> ELSE <<>>
        e4 == IF Chars(password) \cap DigitChars = {}
              THEN <<"Password must contain at least one number">> ELSE <<>>
        e5 == IF Chars(password) \cap special_chars = {}
              THEN <<"Password must contain at least one special character">> ELSE <<>>
        errors == e1 \o e2 \o e3 \o e4 \o e5
    IN  [valid |-> errors = <<>>, errors |-> errors, score |-> 5 - Len(errors)]

StrongPassword == <<"S", "t", "r", "0", "n", "g", "!", "P", "a", "s", "s">>
WeakPassword == <<"A", "b", "c">>
WrongPassword == <<"w", "r", "o", "n", "g">>
NoPassword == <<>>
UpperPassword == <<"P", "A", "S", "S", "1", "2", "3", "!">>
LowerPassword == <<"p", "a", "s", "s", "w", "o", "r", "d">>
DigitPassword == <<"1", "2", "3", "0", "1", "2", "3", "0">>
SpecialPassword == <<"!", "@">>

\* the passwords callers type
Passwords == {NoPassword, WeakPassword, WrongPassword, DEMO_PASSWORD, StrongPassword,
              UpperPassword, LowerPassword, DigitPassword, SpecialPassword}

\* What the password_hash column or a caller may hand to verify_password:
\* hashes that hash_password made, the empty string, text without ':', a hash
\* with a second ':' and more text, "::", ":" alone, a digest with ':' and no
\* salt, and None.
MalformedHashes ==
    { <<>>, <<Text(<<"not-a-valid-format">>)>>,
      hash_password_with(StrongPassword, "salt1") \o <<Sep, Text(<<"more">>)>>,
      <<Sep, Sep>>, None }

StoredValues ==
    {hash_password_with(q, salt) : q \in Passwords, salt \in Salts}
       \cup MalformedHashes
       \cup {<<Sep>>, <<pbkdf2_hmac(StrongPassword, <<Text(<<"salt1">>)>>), Sep>>}

(***************************************************************************)
(* E-mail addresses and tenants                                            *)
(***************************************************************************)
\* email.lower().strip()
lower_strip(email) == Email(email.text, "plain")

AcmeEmail == Email("sales@acme.example", "plain")
ClosedEmail == Email("old@closed.example", "plain")
UnknownEmail == Email("nobody@nowhere.example", "plain")
NoEmail == Email("", "plain")

\* A row of the companies table (database.py, create_tables)
Company(id, email, password_hash, plan, is_active) ==
    [id |-> id, email |-> email, password_hash |-> password_hash,
     subscription_plan |-> plan, is_active |-> is_active]

\* What the table may hold when the process starts: nothing (first start), or
\* the demo tenant of an earlier start, an active tenant and a deactivated one.
EarlierRows ==
    { Company(1, DEMO_EMAIL, hash_password_with(DEMO_PASSWORD, "salt1"), "professional", TRUE),
      Company(2, AcmeEmail, hash_password_with(StrongPassword, "salt1"), "basic", TRUE),
      Company(3, ClosedEmail, hash_password_with(StrongPassword, "salt2"), "basic", FALSE) }

\* the next value of the SERIAL id
RECURSIVE MaxId(_)
MaxId(rows) ==
    IF rows = {} THEN 0
    ELSE LET r == CHOOSE x \in rows : TRUE
             m == MaxId(rows \ {r})
         IN  IF r.id > m THEN r.id ELSE m

(***************************************************************************)
(* Tokens (PyJWT, HS256 under settings.JWT_SECRET)                         *)
(***************************************************************************)
Claims(company_id, email, plan, exp, iat, type) ==
    [company_id |-> company_id, email |-> email, subscription_plan |-> plan,
     exp |-> exp, iat |-> iat, type |-> type]

NoClaims == Claims(0, NoEmail, "", 0, 0, "")

\* The HMAC of a claim set under the server's secret: a collision-free
\* function of the claims that only the server can compute.
HS256(claims) == claims

\* jwt.encode(to_encode, secret_key, algorithm): datetime claims become whole
\* seconds; the token is the claims and their signature.
jwt_encode(data, expire, issued_at, type) ==
    LET claims == Claims(data.company_id, data.email, data.subscription_plan,
                         timegm(expire), timegm(issued_at), type)
    IN  [claims |-> claims, mac |-> HS256(claims)]

\* the absence of a token, and a string that is no token at all
NoToken == [claims |-> NoClaims, mac |-> [NoClaims EXCEPT !.type = "absent"]]
Garbage == [claims |-> NoClaims, mac |-> [NoClaims EXCEPT !.type = "garbage"]]

\* payload.get(key): the claim, or None when the payload has no such claim
get(payload, key) == IF key \in DOMAIN payload THEN payload[key] ELSE "None"

\* jwt.decode that does not look at exp
jwt_decode_no_exp(token) ==
    IF token.mac # HS256(token.claims) THEN [error |-> "InvalidSignatureError"]
    ELSE [error |-> "none"]

\* jwt.decode that still accepts a token at the instant of its exp
jwt_decode_strict(token) ==
    IF token.mac # HS256(token.claims) THEN [error |-> "InvalidSignatureError"]
    ELSE IF token.claims.exp < timegm(utcnow) THEN [error |-> "ExpiredSignatureError"]
    ELSE [error |-> "none"]

\* jwt.decode(token, secret_key, algorithms): the signature first, then exp
\* against the UTC clock (PyJWT: exp <= now is expired)
jwt_decode(token) ==
    IF token.mac # HS256(token.claims) THEN [error |-> "InvalidSignatureError"]
    ELSE IF token.claims.exp <= timegm(utcnow) THEN [error |-> "ExpiredSignatureError"]
    ELSE [error |-> "none"]

\* create_access_token with the type claim of a refresh token
create_access_token_typed_refresh(data) ==
    jwt_encode(data, utcnow + timedelta_minutes(JWT_ACCESS_TOKEN_EXPIRE_MINUTES),
               utcnow, "refresh")

create_access_token(data) ==
    jwt_encode(data, utcnow + timedelta_minutes(JWT_ACCESS_TOKEN_EXPIRE_MINUTES),
               utcnow, "access")

create_refresh_token(data) ==
    jwt_encode(data, utcnow + timedelta_days(JWT_REFRESH_TOKEN_EXPIRE_DAYS),
               utcnow, "refresh")

\* What a call of decode_token ends with: the payload, an HTTPException 401,
\* or the AttributeError that evaluating "except jwt.JWTError" raises (PyJWT
\* has no JWTError) for every exception other than jwt.ExpiredSignatureError.
Returned(payload) == [kind |-> "payload", payload |-> payload, status |-> 200, detail |-> ""]
HTTPException(status, detail) ==
    [kind |-> "HTTPException", payload |-> NoClaims, status |-> status, detail |-> detail]
AttributeError ==
    [kind |-> "AttributeError", payload |-> NoClaims, status |-> 0,
     detail |-> "module 'jwt' has no attribute 'JWTError'"]

\* decode_token without the check of the type claim
decode_token_untyped(token, token_type) ==
    LET d == jwt_decode(token) IN
    IF d.error = "ExpiredSignatureError" THEN HTTPException(401, "Token has expired")
    ELSE IF d.error # "none" THEN AttributeError
    ELSE IF fromtimestamp(token.claims.exp) < utcnow THEN AttributeError
    ELSE Returned(token.claims)

\* decode_token that also wants an active session of the token's tenant
decode_token_with_session(token, token_type) ==
    LET d == jwt_decode(token) IN
    IF d.error = "ExpiredSignatureError" THEN HTTPException(401, "Token has expired")
    ELSE IF d.error # "none" THEN AttributeError
    ELSE IF get(token.claims, "type") # token_type THEN AttributeError
    ELSE IF fromtimestamp(token.claims.exp) < utcnow THEN AttributeError
    ELSE IF ~\E t \in DOMAIN active_sessions :
               /\ active_sessions[t].company_id = token.claims.company_id
               /\ active_sessions[t].is_active
    THEN HTTPException(401, "Session expired or invalid")
    ELSE Returned(token.claims)

decode_token(token, token_type) ==
    LET d == jwt_decode(token) IN
    IF d.error = "ExpiredSignatureError" THEN HTTPException(401, "Token has expired")
    ELSE IF d.error # "none" THEN AttributeError
    ELSE IF get(token.claims, "type") # token_type THEN AttributeError
    ELSE IF fromtimestamp(token.claims.exp) < utcnow THEN AttributeError
    ELSE Returned(token.claims)

\* timedelta(hours=h), in ticks
timedelta_hours(h) == h * 3600 * TicksPerSecond

\* create_password_reset_token: a signed token with e-mail, purpose and exp
password_reset_token(email) ==
    LET claims == [email |-> email, purpose |-> "password_reset",
                   exp |-> timegm(utcnow + timedelta_hours(1))]
    IN  [claims |-> claims, mac |-> HS256(claims)]

\* What verify_password_reset_token ends with: a returned value (the e-mail
\* or None) or the AttributeError of evaluating "except jwt.JWTError"
ReturnedValue(value) == [kind |-> "returned", value |-> value]
Raised(exception) == [kind |-> exception, value |-> NoEmail]

verify_password_reset_token(token) ==
    LET d == jwt_decode(token) IN
    IF d.error # "none" THEN Raised("AttributeError")
    ELSE IF get(token.claims, "purpose") # "password_reset"
    THEN ReturnedValue(Email("None", "plain"))
    ELSE ReturnedValue(get(token.claims, "email"))

(***************************************************************************)
(* SessionManager                                                          *)
(***************************************************************************)
Session(company_id, created_at, is_active) ==
    [company_id |-> company_id, created_at |-> created_at, is_active |-> is_active]

\* SessionManager.__init__: active_sessions = {}
NoSessions == [t \in {} |-> Session(0, 0, FALSE)]

\* create_session that keeps a record already stored under the token
create_session_if_absent(sessions, company_id, refresh_token) ==
    [t \in DOMAIN sessions \cup {refresh_token} |->
        IF t \in DOMAIN sessions THEN sessions[t] ELSE Session(company_id, utcnow, TRUE)]

create_session(sessions, company_id, refresh_token) ==
    [t \in DOMAIN sessions \cup {refresh_token} |->
        IF t = refresh_token THEN Session(company_id, utcnow, TRUE) ELSE sessions[t]]

\* dict.get: the record, or None (the empty sequence)
validate_session(sessions, refresh_token) ==
    IF refresh_token \in DOMAIN sessions THEN <<sessions[refresh_token]>> ELSE <<>>

\* revoke_session that overwrites the record instead of clearing its flag
revoke_session_clobbers(sessions, refresh_token) ==
    [t \in DOMAIN sessions |->
        IF t = refresh_token THEN Session(0, 0, FALSE) ELSE sessions[t]]

revoke_session(sessions, refresh_token) ==
    [t \in DOMAIN sessions |->
        IF t = refresh_token THEN [sessions[t] EXCEPT !.is_active = FALSE] ELSE sessions[t]]

\* revoke_all_sessions that stops at the first session of the tenant
revoke_all_sessions_first(sessions, company_id) ==
    LET own == {t \in DOMAIN sessions : sessions[t].company_id = company_id}
        one == IF own = {} THEN {} ELSE {CHOOSE t \in own : TRUE}
    IN  [t \in DOMAIN sessions |->
            IF t \in one THEN [sessions[t] EXCEPT !.is_active = FALSE] ELSE sessions[t]]

\* revoke_all_sessions that does not look at the company id
revoke_all_sessions_everyone(sessions, company_id) ==
    [t \in DOMAIN sessions |-> [sessions[t] EXCEPT !.is_active = FALSE]]

revoke_all_sessions(sessions, company_id) ==
    [t \in DOMAIN sessions |->
        IF sessions[t].company_id = company_id
        THEN [sessions[t] EXCEPT !.is_active = FALSE] ELSE sessions[t]]

(***************************************************************************)
(* The state machine                                                       *)
(***************************************************************************)
\* The record of an operation: its name, its inputs (token, email, password,
\* new password, company id) and its answer (status, detail, the tokens it returned).
Op(op, token, email, password, status, detail, access_token, refresh_token) ==
    [op |-> op, token |-> token, email |-> email, password |-> password,
     new_password |-> NoPassword, company_id |-> 0, status |-> status, detail |-> detail,
     access_token |-> access_token, refresh_token |-> refresh_token]

Quiet(op) == Op(op, NoToken, NoEmail, NoPassword, 0, "", NoToken, NoToken)

\* Importing the modules (app.py, lines 19-25): database.db_pool is None and
\* "from database import db_pool" binds api_auth's db_pool to that value.
Init ==
    /\ now = 0
    /\ tz \in TzOffsets
    /\ DATABASE_URL \in BOOLEAN
    /\ phase = "starting"
    /\ database_db_pool = "None"
    /\ api_auth_db_pool = "None"
    /\ companies \in (IF DATABASE_URL THEN {{}, EarlierRows} ELSE {{}})
    /\ active_sessions = NoSessions
    /\ issued = {}
    /\ advances = 0
    /\ last = Quiet("import")
    /\ inflight = {}

\* create_demo_data: the demo tenant, unless a row with its e-mail exists
create_demo_data(rows, salt) ==
    IF \E r \in rows : r.email = DEMO_EMAIL THEN rows
    ELSE rows \cup { Company(MaxId(rows) + 1, DEMO_EMAIL,
                             hash_password_with(DEMO_PASSWORD, salt), "professional", TRUE) }

\* lifespan -> init_database: rebinds database.db_pool only
init_database ==
    /\ phase = "starting"
    /\ phase' = "serving"
    /\ IF ~DATABASE_URL
       THEN UNCHANGED <<database_db_pool, companies>>
       ELSE /\ database_db_pool' = "Pool"
            /\ \E salt \in Salts : companies' = create_demo_data(companies, salt)
    /\ last' = Quiet("init_database")
    /\ UNCHANGED <<now, tz, DATABASE_URL, api_auth_db_pool, active_sessions, issued,
                   advances, inflight>>

\* The tenant a login authenticates, as a sequence of at most one token_data
Authenticated(email, password) ==
    IF email = DEMO_EMAIL /\ password = DEMO_PASSWORD
    THEN <<[company_id |-> 1, email |-> email, subscription_plan |-> "professional"]>>
    ELSE IF api_auth_db_pool # "None"
    THEN LET users == {r \in companies : r.email = email /\ r.is_active} IN
         IF users # {} /\ verify_password(password, (CHOOSE r \in users : TRUE).password_hash)
         THEN LET user == CHOOSE r \in users : TRUE IN
              <<[company_id |-> user.id, email |-> user.email,
                 subscription_plan |-> user.subscription_plan]>>
         ELSE <<>>
    ELSE <<>>

\* a failure that tells an unknown e-mail from a wrong password
InvalidCredentials_reveals(email) ==
    IF \E r \in companies : r.email = email
    THEN HTTPException(401, "Invalid email or password")
    ELSE HTTPException(404, "No account with this email")

\* "Authentication failed": the same exception whatever the cause
InvalidCredentials(email) == HTTPException(401, "Invalid email or password")

login_user(email_in, password) ==
    /\ phase = "serving"
    /\ LET email == lower_strip(email_in)
           who == Authenticated(email, password)
       IN  IF who # <<>>
           THEN LET token_data == who[1]
                    access_token == create_access_token(token_data)
                    refresh_token == create_refresh_token(token_data)
                IN  /\ Cardinality(issued \cup {access_token, refresh_token}) <= MaxTokens
                    /\ active_sessions' =
                          create_session(active_sessions, token_data.company_id, refresh_token)
                    /\ issued' = issued \cup {access_token, refresh_token}
                    /\ last' = Op("login", NoToken, email_in, password, 200, "",
                                  access_token, refresh_token)
           ELSE /\ last' = Op("login", NoToken, email_in, password,
                              InvalidCredentials(email).status,
                              InvalidCredentials(email).detail, NoToken, NoToken)
                /\ UNCHANGED <<active_sessions, issued>>
    /\ UNCHANGED <<now, tz, DATABASE_URL, phase, database_db_pool, api_auth_db_pool,
                   companies, advances, inflight>>

\* the session check without the test of the is_active flag
session_rejected_if_absent(session) == session = <<>>

\* "if not session or not session.get('is_active')"
session_rejected(session) == session = <<>> \/ ~session[1].is_active

refresh_access_token(token) ==
    /\ phase = "serving"
    /\ LET d == decode_token(token, "refresh")
           session == validate_session(active_sessions, token)
       IN  IF d.kind = "HTTPException"
           THEN /\ last' = Op("refresh", token, NoEmail, NoPassword, d.status, d.detail,
                              NoToken, NoToken)
                /\ UNCHANGED issued
           ELSE IF d.kind # "payload"
           THEN /\ last' = Op("refresh", token, NoEmail, NoPassword, 401,
                              "Invalid refresh token", NoToken, NoToken)
                /\ UNCHANGED issued
           ELSE IF session_rejected(session)
           THEN /\ last' = Op("refresh", token, NoEmail, NoPassword, 401,
                              "Session expired or invalid", NoToken, NoToken)
                /\ UNCHANGED issued
           ELSE LET token_data == [company_id |-> d.payload.company_id,
                                   email |-> d.payload.email,
                                   subscription_plan |-> d.payload.subscription_plan]
                    new_access_token == create_access_token(token_data)
                IN  /\ Cardinality(issued \cup {new_access_token}) <= MaxTokens
                    /\ issued' = issued \cup {new_access_token}
                    /\ last' = Op("refresh", token, NoEmail, NoPassword, 200, "",
                                  new_access_token, NoToken)
    /\ UNCHANGED <<now, tz, DATABASE_URL, phase, database_db_pool, api_auth_db_pool,
                   companies, active_sessions, advances, inflight>>

logout_user(token) ==
    /\ phase = "serving"
    /\ LET d == decode_token(token, "access") IN
       /\ active_sessions' =
             IF d.kind = "payload"
             THEN revoke_all_sessions(active_sessions, d.payload.company_id)
             ELSE active_sessions
       /\ last' = Op("logout", token, NoEmail, NoPassword, 200, "Logged out successfully",
                     NoToken, NoToken)
    /\ UNCHANGED <<now, tz, DATABASE_URL, phase, database_db_pool, api_auth_db_pool,
                   companies, issued, advances, inflight>>

\* What get_current_user returns or raises
get_current_user_result(token) ==
    LET d == decode_token(token, "access") IN
    IF d.kind = "HTTPException"
    THEN [status |-> d.status, detail |-> d.detail, user |-> NoClaims]
    ELSE IF d.kind # "payload"
    THEN [status |-> 401, detail |-> "Authentication failed", user |-> NoClaims]
    ELSE IF d.payload.company_id = 0
    THEN [status |-> 401, detail |-> "Invalid token payload - missing company_id",
          user |-> NoClaims]
    ELSE [status |-> 200, detail |-> "", user |-> d.payload]

get_current_user(token) ==
    /\ phase = "serving"
    /\ last' = Op("get_current_user", token, NoEmail, NoPassword,
                  get_current_user_result(token).status,
                  get_current_user_result(token).detail, NoToken, NoToken)
                   @@ [answer |-> get_current_user_result(token).user]
    /\ UNCHANGED <<now, tz, DATABASE_URL, phase, database_db_pool, api_auth_db_pool,
                   companies, active_sessions, issued, advances, inflight>>

\* What validate_token returns
TokenInfo(valid, claims, error) ==
    [valid |-> valid, company_id |-> claims.company_id, email |-> claims.email,
     subscription_plan |-> claims.subscription_plan, expires_at |-> claims.exp,
     issued_at |-> claims.iat, error |-> error]

\* validate_token that reads the claims of any token the server signed
validate_token_result_signed(token) ==
    IF jwt_decode(token).error = "none"
    THEN TokenInfo(TRUE, token.claims, "")
    ELSE TokenInfo(FALSE, NoClaims, "Token validation failed")

validate_token_result(token) ==
    LET d == decode_token(token, "access") IN
    IF d.kind = "payload" THEN TokenInfo(TRUE, d.payload, "")
    ELSE IF d.kind = "HTTPException" THEN TokenInfo(FALSE, NoClaims, d.detail)
    ELSE TokenInfo(FALSE, NoClaims, "Token validation failed")

validate_token(token) ==
    /\ phase = "serving"
    /\ last' = Op("validate_token", token, NoEmail, NoPassword, 200, "", NoToken, NoToken)
                   @@ [answer |-> validate_token_result(token)]
    /\ UNCHANGED <<now, tz, DATABASE_URL, phase, database_db_pool, api_auth_db_pool,
                   companies, active_sessions, issued, advances, inflight>>

\* The answer of register_company and the hash it stores (<<>>: none)
register_company_result(email_in, password, salt) ==
    LET password_validation == validate_password_strength(password)
        email == lower_strip(email_in)
    IN  IF ~password_validation.valid
        THEN [status |-> 400, detail |-> "Password does not meet security requirements",
              stored |-> <<>>]
        ELSE IF api_auth_db_pool = "None"
        THEN [status |-> 503, detail |-> "Registration service temporarily unavailable",
              stored |-> <<>>]
        ELSE IF \E r \in companies : r.email = email
        THEN [status |-> 409, detail |-> "Email address already registered", stored |-> <<>>]
        ELSE [status |-> 200, detail |-> "Company registered successfully",
              stored |-> hash_password_with(password, salt)]

register_company(email_in, password) ==
    /\ phase = "serving"
    /\ \E salt \in Salts :
         LET res == register_company_result(email_in, password, salt) IN
         /\ companies' =
               IF res.status = 200
               THEN companies \cup {Company(MaxId(companies) + 1, lower_strip(email_in),
                                            res.stored, "basic", TRUE)}
               ELSE companies
         /\ last' = Op("register", NoToken, email_in, password, res.status, res.detail,
                       NoToken, NoToken)
    /\ UNCHANGED <<now, tz, DATABASE_URL, phase, database_db_pool, api_auth_db_pool,
                   active_sessions, issued, advances, inflight>>

\* change_password that only looks at the access token
change_password_result_unchecked(token, old_password, new_password, salt) ==
    LET d == decode_token(token, "access") IN
    IF d.kind = "payload"
    THEN [status |-> 200, detail |-> "Password changed successfully. Please login again.",
          stored |-> hash_password_with(new_password, salt)]
    ELSE [status |-> 401, detail |-> "Could not validate credentials", stored |-> <<>>]

\* The answer of change_password and the hash it stores (<<>>: none)
change_password_result(token, old_password, new_password, salt) ==
    LET password_validation == validate_password_strength(new_password)
        d == decode_token(token, "access")
        users == {r \in companies : r.id = d.payload.company_id /\ r.is_active}
    IN  IF old_password = NoPassword \/ new_password = NoPassword
        THEN [status |-> 400, detail |-> "Old password and new password are required",
              stored |-> <<>>]
        ELSE IF ~password_validation.valid
        THEN [status |-> 400, detail |-> "New password does not meet security requirements",
              stored |-> <<>>]
        ELSE IF d.kind = "HTTPException"
        THEN [status |-> d.status, detail |-> d.detail, stored |-> <<>>]
        ELSE IF d.kind # "payload"
        THEN [status |-> 500, detail |-> "Password change failed due to server error",
              stored |-> <<>>]
        ELSE IF api_auth_db_pool = "None"
        THEN [status |-> 503, detail |-> "Password change service temporarily unavailable",
              stored |-> <<>>]
        ELSE IF users = {}
        THEN [status |-> 404, detail |-> "User not found", stored |-> <<>>]
        ELSE IF ~verify_password(old_password, (CHOOSE r \in users : TRUE).password_hash)
        THEN [status |-> 400, detail |-> "Current password is incorrect", stored |-> <<>>]
        ELSE [status |-> 200, detail |-> "Password changed successfully. Please login again.",
              stored |-> hash_password_with(new_password, salt)]

change_password(token, old_password, new_password) ==
    /\ phase = "serving"
    /\ \E salt \in Salts :
         LET res == change_password_result(token, old_password, new_password, salt)
             company_id == token.claims.company_id
         IN  /\ companies' =
                   IF res.status = 200
                   THEN {IF r.id = company_id THEN [r EXCEPT !.password_hash = res.stored]
                         ELSE r : r \in companies}
                   ELSE companies
             /\ active_sessions' =
                   IF res.status = 200
                   THEN revoke_all_sessions(active_sessions, company_id)
                   ELSE active_sessions
             /\ last' = [Op("change_password", token, NoEmail, old_password,
                            res.status, res.detail, NoToken, NoToken)
                         EXCEPT !.new_password = new_password]
    /\ UNCHANGED <<now, tz, DATABASE_URL, phase, database_db_pool, api_auth_db_pool,
                   issued, advances, inflight>>

\* SessionManager.revoke_session and revoke_all_sessions, called on the
\* session manager directly
call_revoke_session(token) ==
    /\ phase = "serving"
    /\ active_sessions' = revoke_session(active_sessions, token)
    /\ last' = Op("revoke_session", token, NoEmail, NoPassword, 0, "", NoToken, NoToken)
    /\ UNCHANGED <<now, tz, DATABASE_URL, phase, database_db_pool, api_auth_db_pool,
                   companies, issued, advances, inflight>>

call_revoke_all_sessions(company_id) ==
    /\ phase = "serving"
    /\ active_sessions' = revoke_all_sessions(active_sessions, company_id)
    /\ last' = [Quiet("revoke_all_sessions") EXCEPT !.company_id = company_id]
    /\ UNCHANGED <<now, tz, DATABASE_URL, phase, database_db_pool, api_auth_db_pool,
                   companies, issued, advances, inflight>>

\* Time passes: half a second, the life of an access token, the life of a
\* refresh token.
Jumps == {1, timedelta_minutes(JWT_ACCESS_TOKEN_EXPIRE_MINUTES),
          timedelta_days(JWT_REFRESH_TOKEN_EXPIRE_DAYS)}

AdvanceClock(d) ==
    /\ advances < MaxAdvances
    /\ advances' = advances + 1
    /\ now' = now + d
    /\ last' = Quiet("clock")
    /\ UNCHANGED <<tz, DATABASE_URL, phase, database_db_pool, api_auth_db_pool,
                   companies, active_sessions, issued, inflight>>

\* The process is started again: the modules are imported anew, the session
\* map is empty again; the database and the tokens callers hold remain.
Restart ==
    /\ phase = "serving"
    /\ phase' = "starting"
    /\ database_db_pool' = "None"
    /\ api_auth_db_pool' = "None"
    /\ active_sessions' = NoSessions
    /\ last' = Quiet("import")
    /\ UNCHANGED <<now, tz, DATABASE_URL, companies, issued, advances, inflight>>

(***************************************************************************)
(* What callers send                                                       *)
(***************************************************************************)
\* e-mail and password of a login
LoginInputs ==
    { <<Email(DEMO_EMAIL.text, "typed"), DEMO_PASSWORD>>, <<DEMO_EMAIL, WrongPassword>>,
      <<AcmeEmail, StrongPassword>>,
      <<ClosedEmail, StrongPassword>>, <<UnknownEmail, StrongPassword>> }

\* old and new password of a password change
PasswordChanges ==
    { <<NoPassword, StrongPassword>>, <<DEMO_PASSWORD, WeakPassword>>,
      <<DEMO_PASSWORD, StrongPassword>>, <<WrongPassword, StrongPassword>> }

\* e-mail and password of a registration
RegistrationInputs ==
    { <<UnknownEmail, StrongPassword>>, <<UnknownEmail, WeakPassword>>,
      <<Email(DEMO_EMAIL.text, "typed"), StrongPassword>> }

CompanyIds == {1, 2}

\* A token whose type claim was rewritten by its holder, the signature kept
Retyped(token) ==
    [token EXCEPT !.claims.type = IF @ = "access" THEN "refresh" ELSE "access"]

\* The tokens a caller can present: those issued, refresh tokens rewritten
\* into access tokens, and junk
Presentable ==
    issued \cup {Retyped(t) : t \in {u \in issued : u.claims.type = "refresh"}} \cup {Garbage}

\* Requests to the authentication endpoints and calls of the session manager
Next ==
    \/ init_database
    \/ \E c \in LoginInputs : login_user(c[1], c[2])
    \/ \E t \in Presentable : refresh_access_token(t)
    \/ \E t \in Presentable : logout_user(t)
    \/ \E t \in issued \cup {Garbage} : call_revoke_session(t)
    \/ \E c \in CompanyIds : call_revoke_all_sessions(c)
    \/ \E d \in Jumps : AdvanceClock(d)
    \/ Restart

Spec == Init /\ [][Next]_vars

\* Requests of a tenant who changes the password
NextPassword ==
    \/ init_database
    \/ \E c \in LoginInputs : login_user(c[1], c[2])
    \/ \E t \in Presentable, c \in PasswordChanges : change_password(t, c[1], c[2])
    \/ \E t \in Presentable : refresh_access_token(t)
    \/ \E c \in RegistrationInputs : register_company(c[1], c[2])
    \/ \E d \in Jumps : AdvanceClock(d)

SpecPassword == Init /\ [][NextPassword]_vars

\* Logins and password changes alone
NextChange ==
    \/ init_database
    \/ \E c \in LoginInputs : login_user(c[1], c[2])
    \/ \E t \in Presentable, c \in PasswordChanges : change_password(t, c[1], c[2])
    \/ \E d \in Jumps : AdvanceClock(d)

SpecChange == Init /\ [][NextChange]_vars

\* Requests of a client that logs in and has its tokens validated
NextValidate ==
    \/ init_database
    \/ \E c \in LoginInputs : login_user(c[1], c[2])
    \/ \E t \in Presentable : validate_token(t)
    \/ \E d \in Jumps : AdvanceClock(d)

SpecValidate == Init /\ [][NextValidate]_vars

\* Requests of a client that logs in and out and uses its access token
NextAccess ==
    \/ init_database
    \/ \E c \in LoginInputs : login_user(c[1], c[2])
    \/ \E t \in issued \cup {Garbage} : logout_user(t)
    \/ \E t \in issued \cup {Garbage} : validate_token(t)
    \/ \E t \in issued \cup {Garbage} : get_current_user(t)
    \/ \E d \in Jumps : AdvanceClock(d)

SpecAccess == Init /\ [][NextAccess]_vars

(***************************************************************************)
(* The SessionManager, called by concurrent requests                       *)
(***************************************************************************)
\* The coroutines of SessionManager hold no await: each runs to its end
\* before the event loop lets another request go on, so that a call is one
\* step and concurrent requests are interleavings of whole calls.

\* the process serving without a database
InitSessions ==
    /\ now = 0
    /\ tz = 0
    /\ DATABASE_URL = FALSE
    /\ phase = "serving"
    /\ database_db_pool = "None"
    /\ api_auth_db_pool = "None"
    /\ companies = {}
    /\ active_sessions = NoSessions
    /\ issued = {}
    /\ advances = 0
    /\ last = Quiet("init_database")
    /\ inflight = {}

\* the token_data of a tenant
TenantData(company_id) ==
    IF company_id = 1
    THEN [company_id |-> 1, email |-> DEMO_EMAIL, subscription_plan |-> "professional"]
    ELSE [company_id |-> company_id, email |-> AcmeEmail, subscription_plan |-> "basic"]

\* session_manager.create_session(id, refresh_token) with a refresh token
\* made for the tenant at this moment
call_create_session(company_id) ==
    LET refresh_token == create_refresh_token(TenantData(company_id)) IN
    /\ phase = "serving"
    /\ Cardinality(issued \cup {refresh_token}) <= MaxTokens
    /\ active_sessions' = create_session(active_sessions, company_id, refresh_token)
    /\ issued' = issued \cup {refresh_token}
    /\ last' = [Op("create_session", refresh_token, NoEmail, NoPassword, 0, "",
                    NoToken, NoToken) EXCEPT !.company_id = company_id]
    /\ UNCHANGED <<now, tz, DATABASE_URL, phase, database_db_pool, api_auth_db_pool,
                   companies, advances, inflight>>

call_validate_session(token) ==
    /\ phase = "serving"
    /\ last' = Op("validate_session", token, NoEmail, NoPassword, 0, "", NoToken, NoToken)
                   @@ [answer |-> validate_session(active_sessions, token)]
    /\ UNCHANGED <<now, tz, DATABASE_URL, phase, database_db_pool, api_auth_db_pool,
                   companies, active_sessions, issued, advances, inflight>>

NextSessions ==
    \/ \E c \in CompanyIds : call_create_session(c)
    \/ \E t \in issued \cup {Garbage} : call_validate_session(t)
    \/ \E t \in issued \cup {Garbage} : call_revoke_session(t)
    \/ \E c \in CompanyIds : call_revoke_all_sessions(c)
    \/ AdvanceClock(1)

SpecSessions == InitSessions /\ [][NextSessions]_vars

\* session_manager.create_session(id, refresh_token) with a token that was
\* returned before, whichever tenant it was made for
call_create_session_with(company_id, refresh_token) ==
    /\ phase = "serving"
    /\ active_sessions' = create_session(active_sessions, company_id, refresh_token)
    /\ last' = [Op("create_session", refresh_token, NoEmail, NoPassword, 0, "",
                    NoToken, NoToken) EXCEPT !.company_id = company_id]
    /\ UNCHANGED <<now, tz, DATABASE_URL, phase, database_db_pool, api_auth_db_pool,
                   companies, issued, advances, inflight>>

\* Calls of the store with any company id and any token
NextStore ==
    \/ \E c \in CompanyIds : call_create_session(c)
    \/ \E c \in CompanyIds, t \in issued : call_create_session_with(c, t)
    \/ \E t \in issued \cup {Garbage} : call_validate_session(t)
    \/ \E t \in issued : call_revoke_session(t)
    \/ AdvanceClock(1)

SpecStore == InitSessions /\ [][NextStore]_vars

(***************************************************************************)
(* The token functions of auth.py, called on their own                     *)
(***************************************************************************)
call_create_password_reset_token(email) ==
    LET token == password_reset_token(email) IN
    /\ Cardinality(issued \cup {token}) <= MaxTokens
    /\ issued' = issued \cup {token}
    /\ last' = Op("create_password_reset_token", NoToken, email, NoPassword, 0, "",
                  token, NoToken)
    /\ UNCHANGED <<now, tz, DATABASE_URL, phase, database_db_pool, api_auth_db_pool,
                   companies, active_sessions, advances, inflight>>

call_create_access_token(company_id) ==
    LET token == create_access_token(TenantData(company_id)) IN
    /\ Cardinality(issued \cup {token}) <= MaxTokens
    /\ issued' = issued \cup {token}
    /\ last' = Op("create_access_token", NoToken, NoEmail, NoPassword, 0, "",
                  token, NoToken)
    /\ UNCHANGED <<now, tz, DATABASE_URL, phase, database_db_pool, api_auth_db_pool,
                   companies, active_sessions, advances, inflight>>

call_create_refresh_token(company_id) ==
    LET token == create_refresh_token(TenantData(company_id)) IN
    /\ Cardinality(issued \cup {token}) <= MaxTokens
    /\ issued' = issued \cup {token}
    /\ last' = Op("create_refresh_token", NoToken, NoEmail, NoPassword, 0, "",
                  NoToken, token)
    /\ UNCHANGED <<now, tz, DATABASE_URL, phase, database_db_pool, api_auth_db_pool,
                   companies, active_sessions, advances, inflight>>

call_verify_password_reset_token(token) ==
    /\ last' = Op("verify_password_reset_token", token, NoEmail, NoPassword, 0, "",
                  NoToken, NoToken)
                   @@ [answer |-> verify_password_reset_token(token)]
    /\ UNCHANGED <<now, tz, DATABASE_URL, phase, database_db_pool, api_auth_db_pool,
                   companies, active_sessions, issued, advances, inflight>>

call_decode_token(token, token_type) ==
    /\ last' = Op("decode_token", token, NoEmail, NoPassword,
                  decode_token(token, token_type).status,
                  decode_token(token, token_type).detail, NoToken, NoToken)
                   @@ [answer |-> decode_token(token, token_type).kind,
                       token_type |-> token_type]
    /\ UNCHANGED <<now, tz, DATABASE_URL, phase, database_db_pool, api_auth_db_pool,
                   companies, active_sessions, issued, advances, inflight>>

\* the modules imported, in either time zone, without a database
InitTokens ==
    /\ now = 0
    /\ tz \in TzOffsets
    /\ DATABASE_URL = FALSE
    /\ phase = "starting"
    /\ database_db_pool = "None"
    /\ api_auth_db_pool = "None"
    /\ companies = {}
    /\ active_sessions = NoSessions
    /\ issued = {}
    /\ advances = 0
    /\ last = Quiet("import")
    /\ inflight = {}

NextTokens ==
    \/ call_create_password_reset_token(AcmeEmail)
    \/ call_create_access_token(1)
    \/ call_create_refresh_token(1)
    \/ \E t \in issued \cup {Garbage} : call_verify_password_reset_token(t)
    \/ \E t \in issued, type \in {"access", "refresh"} : call_decode_token(t, type)
    \/ \E d \in Jumps : AdvanceClock(d)

SpecTokens == InitTokens /\ [][NextTokens]_vars

(***************************************************************************)
(* The entry point main_production.py                                      *)
(***************************************************************************)
\* main_production has a db_pool, an AuthManager and a companies table of its
\* own; its lifespan raises when the pool cannot be made, so that the
\* process serves with a pool only.

\* AuthManager.access_token_expire_minutes of main_production
production_access_token_expire_minutes == 30

\* AuthManager.verify_password of main_production: any exception gives False
production_verify_password(password, hashed) ==
    IF password = None \/ hashed = None
    THEN FALSE
    ELSE LET parts == split(hashed) IN
         IF Len(parts) # 2
         THEN FALSE
         ELSE <<pbkdf2_hmac(password, parts[2])>> = parts[1]

\* AuthManager.create_access_token / create_refresh_token of main_production
production_token(data, expire, type) ==
    LET claims == [company_id |-> data.company_id, email |-> data.email,
                   exp |-> timegm(expire), type |-> type]
    IN  [claims |-> claims, mac |-> HS256(claims)]

\* What the body of the try block of login ends with: the tenant, or the
\* HTTPException it raises
production_login_body(email_in, password) ==
    LET email == lower_strip(email_in)
        users == {r \in companies : r.email = email /\ r.is_active}
    IN  IF email = NoEmail \/ password = NoPassword
        THEN HTTPException(400, "Email and password required")
        ELSE IF users = {}
        THEN HTTPException(401, "Invalid credentials")
        ELSE IF ~production_verify_password(password,
                                            (CHOOSE r \in users : TRUE).password_hash)
        THEN HTTPException(401, "Invalid credentials")
        ELSE Returned(CHOOSE r \in users : TRUE)

\* login: "except Exception" catches the HTTPException of the body as well
production_login_result(email_in, password) ==
    LET body == production_login_body(email_in, password) IN
    IF body.kind # "payload" THEN HTTPException(500, "Login failed") ELSE body

production_lifespan ==
    /\ phase = "starting"
    /\ phase' = "serving"
    /\ \E salt \in Salts : companies' = create_demo_data(companies, salt)
    /\ last' = Quiet("lifespan")
    /\ UNCHANGED <<now, tz, DATABASE_URL, database_db_pool, api_auth_db_pool,
                   active_sessions, issued, advances, inflight>>

production_login(email_in, password) ==
    /\ phase = "serving"
    /\ LET res == production_login_result(email_in, password)
           token_data == [company_id |-> res.payload.id, email |-> res.payload.email]
       IN  last' = IF res.kind = "payload"
                   THEN Op("production_login", NoToken, email_in, password, 200, "",
                           production_token(token_data,
                              utcnow + timedelta_minutes(production_access_token_expire_minutes),
                              "access"),
                           production_token(token_data,
                              utcnow + timedelta_days(JWT_REFRESH_TOKEN_EXPIRE_DAYS),
                              "refresh"))
                   ELSE Op("production_login", NoToken, email_in, password,
                           res.status, res.detail, NoToken, NoToken)
    /\ UNCHANGED <<now, tz, DATABASE_URL, phase, database_db_pool, api_auth_db_pool,
                   companies, active_sessions, issued, advances, inflight>>

\* the process before its lifespan, with a database that is empty or holds
\* the tenants of an earlier start
InitProduction ==
    /\ now = 0
    /\ tz = 0
    /\ DATABASE_URL = TRUE
    /\ phase = "starting"
    /\ database_db_pool = "None"
    /\ api_auth_db_pool = "None"
    /\ companies \in {{}, EarlierRows}
    /\ active_sessions = NoSessions
    /\ issued = {}
    /\ advances = 0
    /\ last = Quiet("import")
    /\ inflight = {}

\* e-mail and password of a login sent to main_production
ProductionLoginInputs ==
    {Email(DEMO_EMAIL.text, "typed"), AcmeEmail, ClosedEmail, UnknownEmail, NoEmail}
       \X {DEMO_PASSWORD, StrongPassword, WrongPassword, NoPassword}

NextProduction ==
    \/ production_lifespan
    \/ \E c \in ProductionLoginInputs : production_login(c[1], c[2])
    \/ \E d \in Jumps : AdvanceClock(d)

SpecProduction == InitProduction /\ [][NextProduction]_vars

(***************************************************************************)
(* The password functions of auth.py, called on their own                  *)
(***************************************************************************)
\* A call of a password function: what it was given and what it returned
PasswordCall(op, password, stored, answer) ==
    [op |-> op, password |-> password, stored |-> stored, answer |-> answer]

\* the process before any call; no database is configured
InitHasher ==
    /\ now = 0
    /\ tz = 0
    /\ DATABASE_URL = FALSE
    /\ phase = "starting"
    /\ database_db_pool = "None"
    /\ api_auth_db_pool = "None"
    /\ companies = {}
    /\ active_sessions = NoSessions
    /\ issued = {}
    /\ advances = 0
    /\ last = PasswordCall("import", NoPassword, <<>>, FALSE)
    /\ inflight = {}

\* AuthManager.hash_password: draws a salt and returns "digest:salt"
hash_password(password) ==
    /\ \E salt \in Salts :
          last' = PasswordCall("hash_password", password,
                               hash_password_with(password, salt), TRUE)
    /\ UNCHANGED <<now, tz, DATABASE_URL, phase, database_db_pool, api_auth_db_pool,
                   companies, active_sessions, issued, advances, inflight>>

call_verify_password(password, hashed_password) ==
    /\ last' = PasswordCall("verify_password", password, hashed_password,
                            verify_password(password, hashed_password))
    /\ UNCHANGED <<now, tz, DATABASE_URL, phase, database_db_pool, api_auth_db_pool,
                   companies, active_sessions, issued, advances, inflight>>

call_validate_password_strength(password) ==
    /\ last' = PasswordCall("validate_password_strength", password, <<>>,
                            validate_password_strength(password))
    /\ UNCHANGED <<now, tz, DATABASE_URL, phase, database_db_pool, api_auth_db_pool,
                   companies, active_sessions, issued, advances, inflight>>

NextHasher ==
    \/ \E p \in Passwords : hash_password(p)
    \/ \E p \in Passwords \cup {None}, h \in StoredValues : call_verify_password(p, h)
    \/ \E p \in Passwords : call_validate_password_strength(p)

SpecHasher == InitHasher /\ [][NextHasher]_vars

(***************************************************************************)
(* Properties                                                              *)
(***************************************************************************)
\* the token was signed by the server
CorrectlySigned(token) == token.mac = HS256(token.claims)

\* the token's exp lies strictly before the current time
ExpiredBefore(token) == token.claims.exp * TicksPerSecond < now

\* C1: a refresh token is never decoded as an access token and an access
\* token never as a refresh token, whenever it is presented; a refresh
\* request with anything but a refresh token is answered 401 without a new
\* token, and a logout with anything but an access token revokes nothing.
C1_DecodeKeepsTypesApart ==
    \A t \in issued :
        /\ t.claims.type = "refresh" => decode_token(t, "access").kind # "payload"
        /\ t.claims.type = "access" => decode_token(t, "refresh").kind # "payload"

C1_WrongTypeStep ==
    /\ (last'.op = "refresh" /\ last'.token.claims.type # "refresh")
          => last'.status = 401 /\ last'.access_token = NoToken /\ issued' = issued
    /\ (last'.op = "logout" /\ last'.token.claims.type # "access")
          => active_sessions' = active_sessions

C1_TokenTypesNeverConfused == [](C1_DecodeKeepsTypesApart) /\ [][C1_WrongTypeStep]_vars

\* an access token that is signed and not expired was presented for refresh
\* and refused
C1_Witness ==
    /\ last.op = "refresh"
    /\ last.token \in issued
    /\ last.token.claims.type = "access"
    /\ jwt_decode(last.token).error = "none"
    /\ last.status = 401

\* C2: a refresh with a correctly signed, unexpired refresh token whose
\* session is absent or inactive is answered 401 and issues no access token;
\* after revoke_all_sessions(t) no session of a token issued to t is active,
\* so that a refresh with any of them fails.
C2_RefreshNeedsActiveSession ==
    /\ (/\ last.op = "refresh"
        /\ decode_token(last.token, "refresh").kind = "payload"
        /\ \/ last.token \notin DOMAIN active_sessions
           \/ ~active_sessions[last.token].is_active)
          => /\ last.status = 401
             /\ last.detail = "Session expired or invalid"
             /\ last.access_token = NoToken
    /\ last.op = "revoke_all_sessions"
          => \A t \in issued :
                (t.claims.type = "refresh" /\ t.claims.company_id = last.company_id)
                   => \/ t \notin DOMAIN active_sessions
                      \/ ~active_sessions[t].is_active

\* a refresh token that still decodes was refused because its session had
\* been revoked
C2_Witness ==
    /\ last.op = "refresh"
    /\ decode_token(last.token, "refresh").kind = "payload"
    /\ last.token \in DOMAIN active_sessions
    /\ ~active_sessions[last.token].is_active
    /\ last.status = 401

\* C3: once the database is initialised, a login with the e-mail and the
\* password of an active tenant returns tokens carrying the tenant's id,
\* e-mail and plan and leaves an active session of the tenant under the
\* returned refresh token.
C3_LoginOfActiveTenantSucceeds ==
    \A r \in companies :
        (/\ last.op = "login"
         /\ database_db_pool = "Pool"
         /\ r.email = lower_strip(last.email)
         /\ r.is_active
         /\ verify_password(last.password, r.password_hash))
          => /\ last.status = 200
             /\ last.access_token.claims.company_id = r.id
             /\ last.refresh_token.claims.company_id = r.id
             /\ last.refresh_token.claims.email = r.email
             /\ last.refresh_token.claims.subscription_plan = r.subscription_plan
             /\ last.refresh_token \in DOMAIN active_sessions
             /\ active_sessions[last.refresh_token] = Session(r.id, now, TRUE)

\* the causes of a refused login: no tenant with the e-mail, a deactivated
\* tenant, an active tenant and another password
NoTenantRecord(email_in) == ~\E r \in companies : r.email = lower_strip(email_in)
InactiveTenant(email_in) ==
    \E r \in companies : r.email = lower_strip(email_in) /\ ~r.is_active
WrongPasswordGiven(email_in, password) ==
    \E r \in companies : /\ r.email = lower_strip(email_in)
                         /\ r.is_active
                         /\ ~verify_password(password, r.password_hash)
BadCredentials(email_in, password) ==
    \/ NoTenantRecord(email_in)
    \/ InactiveTenant(email_in)
    \/ WrongPasswordGiven(email_in, password)

\* the request carries the demo e-mail and the demo password of the settings
DemoPair(email_in, password) ==
    lower_strip(email_in) = DEMO_EMAIL /\ password = DEMO_PASSWORD

\* C4: every refused login gets the same answer, 401 "Invalid email or
\* password", whatever the cause (no tenant record, deactivated tenant, wrong
\* password), returns no token and leaves the session store as it was; a
\* login with bad credentials (other than the demo pair of the settings) is
\* refused.
C4_Step ==
    /\ (last'.op = "login" /\ last'.status # 200)
          => /\ last'.status = 401
             /\ last'.detail = "Invalid email or password"
             /\ last'.access_token = NoToken
             /\ last'.refresh_token = NoToken
             /\ active_sessions' = active_sessions
             /\ issued' = issued
    /\ (/\ last'.op = "login"
        /\ BadCredentials(last'.email, last'.password)
        /\ ~DemoPair(last'.email, last'.password))
          => last'.status # 200

C5_Step ==
    LET d == decode_token(last'.token, "access") IN
    \A r \in companies :
        (/\ last'.op = "change_password"
         /\ d.kind = "payload"
         /\ r.id = d.payload.company_id
         /\ r.is_active
         /\ verify_password(last'.password, r.password_hash)
         /\ validate_password_strength(last'.new_password).valid)
          => /\ last'.status = 200
             /\ \E q \in companies' : q.id = r.id /\ q.password_hash # r.password_hash
             /\ \A t \in DOMAIN active_sessions :
                   active_sessions[t].company_id = r.id => ~active_sessions'[t].is_active

C5_ChangePasswordRevokes == [][C5_Step]_vars

\* C6: logout always answers success; with an access token that decodes,
\* no session of the token's tenant is active afterwards; with a token that
\* does not decode no session is changed.
C6_Step ==
    LET d == decode_token(last'.token, "access") IN
    last'.op = "logout"
       => /\ last'.status = 200
          /\ DOMAIN active_sessions' = DOMAIN active_sessions
          /\ IF d.kind = "payload"
             THEN \A t \in DOMAIN active_sessions' :
                     active_sessions'[t].company_id = d.payload.company_id
                        => ~active_sessions'[t].is_active
             ELSE active_sessions' = active_sessions

C6_LogoutAlwaysSucceeds == [][C6_Step]_vars

\* a logout with a decoding access token left two revoked sessions of the
\* tenant
C6_Witness ==
    /\ last.op = "logout"
    /\ decode_token(last.token, "access").kind = "payload"
    /\ Cardinality({t \in DOMAIN active_sessions :
                      /\ active_sessions[t].company_id = last.token.claims.company_id
                      /\ ~active_sessions[t].is_active}) >= 2

\* a logout with a refresh token answered success and left an active session
C6_WitnessNoDecode ==
    /\ last.op = "logout"
    /\ last.token \in issued
    /\ last.token.claims.type = "refresh"
    /\ last.status = 200
    /\ \E t \in DOMAIN active_sessions : active_sessions[t].is_active

\* C7: a successful refresh returns one new access token with the company
\* id, e-mail and plan of the presented refresh token and no refresh token,
\* and leaves the session store unchanged with the token's session active; a
\* refresh with a decoding refresh token whose session is active succeeds.
C7_Step ==
    /\ (last'.op = "refresh" /\ last'.status = 200)
          => /\ last'.access_token.claims.type = "access"
             /\ CorrectlySigned(last'.access_token)
             /\ last'.access_token.claims.company_id = last'.token.claims.company_id
             /\ last'.access_token.claims.email = last'.token.claims.email
             /\ last'.access_token.claims.subscription_plan
                   = last'.token.claims.subscription_plan
             /\ last'.refresh_token = NoToken
             /\ issued' \ issued \subseteq {last'.access_token}
             /\ active_sessions' = active_sessions
             /\ last'.token \in DOMAIN active_sessions'
             /\ active_sessions'[last'.token].is_active
    /\ (/\ last'.op = "refresh"
        /\ decode_token(last'.token, "refresh").kind = "payload"
        /\ last'.token \in DOMAIN active_sessions
        /\ active_sessions[last'.token].is_active)
          => last'.status = 200

C7_RefreshKeepsSession == [][C7_Step]_vars

\* the same refresh token was used for a second successful refresh
C7_Witness ==
    /\ last.op = "refresh"
    /\ last.status = 200
    /\ \E a \in issued : /\ a.claims.type = "access"
                         /\ a.claims.iat > last.token.claims.iat
                         /\ a.claims.iat < last.access_token.claims.iat

\* C8: a correctly signed token whose exp lies strictly before the current
\* time is refused by decode_token with HTTP 401 for either expected type;
\* a refresh with it is answered 401 and a logout with it revokes nothing.
C8_ExpiredIsRefused ==
    \A t \in Presentable :
        (CorrectlySigned(t) /\ ExpiredBefore(t))
           => \A type \in {"access", "refresh"} :
                 /\ decode_token(t, type).kind = "HTTPException"
                 /\ decode_token(t, type).status = 401

C8_Step ==
    /\ (last'.op = "refresh" /\ CorrectlySigned(last'.token) /\ ExpiredBefore(last'.token))
          => last'.status = 401 /\ issued' = issued
    /\ (last'.op = "logout" /\ CorrectlySigned(last'.token) /\ ExpiredBefore(last'.token))
          => active_sessions' = active_sessions

C8_ExpiredTokensNeverAct == [](C8_ExpiredIsRefused) /\ [][C8_Step]_vars

\* a refresh token past its exp was presented for refresh and refused
C8_Witness ==
    /\ last.op = "refresh"
    /\ last.token \in issued
    /\ last.token.claims.type = "refresh"
    /\ ExpiredBefore(last.token)
    /\ last.status = 401

\* C9: a token is accepted by decode_token, with its own type, at every
\* instant from its issuance until just before its exp, and the payload
\* carries the claims it was issued with, whatever the server's time zone.
C9_IssueDecodeRoundTrip ==
    \A t \in issued :
        now < t.claims.exp * TicksPerSecond
           => /\ decode_token(t, t.claims.type).kind = "payload"
              /\ decode_token(t, t.claims.type).payload = t.claims

\* C10: every successful login leaves a session record of its own: the
\* record it creates is under a key that held no record before.
C10_Step ==
    (last'.op = "login" /\ last'.status = 200)
       => /\ last'.refresh_token \notin DOMAIN active_sessions
          /\ Cardinality(DOMAIN active_sessions')
                = Cardinality(DOMAIN active_sessions) + 1

C10_TwoLoginsTwoSessions == [][C10_Step]_vars

\* C11: verify_password(p, hash_password(q)) is true exactly when p = q, for
\* all passwords p and q and every salt hash_password may draw.
C11_VerifyAcceptsOnlyThePassword ==
    /\ last.op = "hash_password"
          => \A p \in Passwords :
                verify_password(p, last.stored) = (p = last.password)
    /\ last.op = "verify_password"
          => \A q \in Passwords, salt \in Salts :
                last.stored = hash_password_with(q, salt)
                   => last.answer = (last.password = q)

\* another password than the hashed one was verified against a hash and refused
C11_Witness ==
    /\ last.op = "verify_password"
    /\ last.password = WrongPassword
    /\ last.stored = hash_password_with(StrongPassword, "salt2")
    /\ last.answer = FALSE

\* the hashed password was verified against its hash and accepted
C11_WitnessAccepted ==
    /\ last.op = "verify_password"
    /\ last.password = NoPassword
    /\ last.stored = hash_password_with(NoPassword, "salt1")
    /\ last.answer = TRUE

\* the number of ':' in a stored string
Separators(stored) == Cardinality({i \in 1..Len(stored) : stored[i].sep})

\* C12: verify_password returns a boolean for every input and returns false
\* for every stored value that is missing or does not hold exactly one ':'
\* (none, several, the empty string), whatever the password, the empty one
\* included.
C12_MalformedHashIsFalse ==
    last.op = "verify_password"
       => /\ last.answer \in BOOLEAN
          /\ (last.stored = None \/ Separators(last.stored) # 1) => last.answer = FALSE

\* the empty password was verified against a value with two separators
C12_Witness ==
    /\ last.op = "verify_password"
    /\ last.password = NoPassword
    /\ last.stored # None
    /\ Separators(last.stored) = 2
    /\ last.answer = FALSE

\* the rules a password violates, by the message of each
ViolatedRules(password) ==
    {m \in {"Password must be at least 8 characters long"} : Len(password) < 8}
    \cup {m \in {"Password must contain at least one uppercase letter"} :
             \A i \in 1..Len(password) : password[i] \notin UpperChars}
    \cup {m \in {"Password must contain at least one lowercase letter"} :
             \A i \in 1..Len(password) : password[i] \notin LowerChars}
    \cup {m \in {"Password must contain at least one number"} :
             \A i \in 1..Len(password) : password[i] \notin DigitChars}
    \cup {m \in {"Password must contain at least one special character"} :
             \A i \in 1..Len(password) : password[i] \notin special_chars}

\* C13: the errors of validate_password_strength hold exactly one entry for
\* each violated rule and nothing else, valid is true exactly when there is
\* no error, and "Abc" gets the length, digit and special-character errors.
C13_StrengthErrorsAccumulate ==
    last.op = "validate_password_strength"
       => /\ {last.answer.errors[i] : i \in 1..Len(last.answer.errors)}
                = ViolatedRules(last.password)
          /\ Len(last.answer.errors) = Cardinality(ViolatedRules(last.password))
          /\ last.answer.valid = (last.answer.errors = <<>>)
          /\ last.password = <<"A", "b", "c">>
                => /\ ~last.answer.valid
                   /\ last.answer.errors =
                         <<"Password must be at least 8 characters long",
                           "Password must contain at least one number",
                           "Password must contain at least one special character">>

\* "Abc" was validated and got three errors
C13_Witness ==
    /\ last.op = "validate_password_strength"
    /\ last.password = WeakPassword
    /\ Len(last.answer.errors) = 3

\* C14: validate_token always returns a result and changes nothing: valid is
\* true, with the company id, e-mail, plan, exp and iat of the token, exactly
\* when decode_token(token, "access") succeeds; otherwise valid is false and
\* an error is given; the session store, the tenants and the issued tokens
\* are as before.
C14_Step ==
    LET d == decode_token(last'.token, "access") IN
    last'.op = "validate_token"
       => /\ last'.status = 200
          /\ last'.answer.valid = (d.kind = "payload")
          /\ last'.answer.valid
                => /\ last'.answer.company_id = last'.token.claims.company_id
                   /\ last'.answer.email = last'.token.claims.email
                   /\ last'.answer.subscription_plan = last'.token.claims.subscription_plan
                   /\ last'.answer.expires_at = last'.token.claims.exp
                   /\ last'.answer.issued_at = last'.token.claims.iat
                   /\ last'.token.claims.type = "access"
          /\ ~last'.answer.valid => last'.answer.error # ""
          /\ active_sessions' = active_sessions
          /\ companies' = companies
          /\ issued' = issued

C14_ValidateTokenIsReadOnly == [][C14_Step]_vars

\* an access token was validated while a session was active, and a refresh
\* token of the same login is held by the caller
C14_Witness ==
    /\ last.op = "validate_token"
    /\ last.answer.valid
    /\ \E t \in DOMAIN active_sessions : active_sessions[t].is_active

\* a refresh token that is signed and not expired was validated and refused
C14_WitnessRefused ==
    /\ last.op = "validate_token"
    /\ last.token \in issued
    /\ last.token.claims.type = "refresh"
    /\ jwt_decode(last.token).error = "none"
    /\ ~last.answer.valid

\* C18: at the instant now = exp of a correctly signed token, and at every
\* later one, decode_token refuses the token as expired with HTTP 401 "Token
\* has expired"; a token it accepts has now < exp.
C18_ExpiryIsInclusive ==
    \A t \in issued :
        /\ now >= t.claims.exp * TicksPerSecond
              => decode_token(t, t.claims.type) = HTTPException(401, "Token has expired")
        /\ decode_token(t, t.claims.type).kind = "payload"
              => now < t.claims.exp * TicksPerSecond

\* the clock stands exactly at the exp of an issued access token
C18_Witness ==
    \E t \in issued : /\ t.claims.type = "access"
                       /\ now = t.claims.exp * TicksPerSecond
                       /\ decode_token(t, "access").kind = "HTTPException"

\* C15: decode_token ends every validation failure (bad signature, malformed
\* token, wrong type, expired) with an HTTPException of status 401 and lets
\* no other exception out; a change_password that gets as far as decoding an
\* access token that does not decode answers 401.
C15_DecodeFailuresAre401 ==
    /\ phase = "serving"
          => \A t \in Presentable : \A type \in {"access", "refresh"} :
                \/ decode_token(t, type).kind = "payload"
                \/ /\ decode_token(t, type).kind = "HTTPException"
                   /\ decode_token(t, type).status = 401
    /\ (/\ last.op = "change_password"
        /\ last.password # NoPassword
        /\ last.new_password # NoPassword
        /\ ViolatedRules(last.new_password) = {}
        /\ decode_token(last.token, "access").kind # "payload")
          => last.status = 401

\* C16: while the handlers have no database pool, a login (other than the
\* demo pair of the settings) is not answered 401 but with a service error,
\* and a registration and a password change that pass their input checks
\* are answered 503.
C16_UnavailableIsNotUnauthorized ==
    api_auth_db_pool = "None"
       => /\ (last.op = "login" /\ ~DemoPair(last.email, last.password))
                => last.status \in {500, 503}
          /\ (last.op = "register" /\ ViolatedRules(last.password) = {})
                => last.status = 503
          /\ (/\ last.op = "change_password"
              /\ last.password # NoPassword
              /\ last.new_password # NoPassword
              /\ ViolatedRules(last.new_password) = {}
              /\ decode_token(last.token, "access").kind = "payload")
                => last.status = 503

\* the causes for which change_password refuses a request
ChangeRefused(token, old_password, new_password) ==
    LET d == decode_token(token, "access") IN
    \/ old_password = NoPassword
    \/ new_password = NoPassword
    \/ ViolatedRules(new_password) # {}
    \/ d.kind # "payload"
    \/ ~\E r \in companies : /\ r.id = d.payload.company_id
                             /\ r.is_active
                             /\ verify_password(old_password, r.password_hash)

\* C19: a change_password that fails (missing old or new password, weak new
\* password, token that does not decode, tenant not found, old password that
\* does not verify, or any answer other than success) leaves the stored
\* hashes and every session as they were.
C19_Step ==
    (/\ last'.op = "change_password"
     /\ \/ last'.status # 200
        \/ ChangeRefused(last'.token, last'.password, last'.new_password))
       => /\ companies' = companies
          /\ active_sessions' = active_sessions

C19_FailedChangeChangesNothing == [][C19_Step]_vars

\* a change to a weak password was refused with a token that decodes, while
\* the tenant has a stored hash and an active session
C19_Witness ==
    /\ last.op = "change_password"
    /\ last.new_password = WeakPassword
    /\ last.status = 400
    /\ decode_token(last.token, "access").kind = "payload"
    /\ \E r \in companies : r.id = last.token.claims.company_id
    /\ \E t \in DOMAIN active_sessions :
          /\ active_sessions[t].company_id = last.token.claims.company_id
          /\ active_sessions[t].is_active

\* C17: under every interleaving of create_session, validate_session,
\* revoke_session and revoke_all_sessions, every record of the store has the
\* company id it was created with, a creation time and a boolean is_active
\* (a session created around a revoke_all_sessions of its tenant is active
\* or inactive), and none of the calls fails: validate_session answers the
\* record or None, and the revocations can always be made.
C17_StoreNeverCorrupted ==
    /\ \A t \in DOMAIN active_sessions :
          /\ DOMAIN active_sessions[t] = {"company_id", "created_at", "is_active"}
          /\ active_sessions[t].company_id \in CompanyIds
          /\ active_sessions[t].company_id = t.claims.company_id
          /\ active_sessions[t].created_at \in 0..now
          /\ active_sessions[t].is_active \in BOOLEAN
    /\ last.op = "validate_session"
          => last.answer = IF last.token \in DOMAIN active_sessions
                           THEN <<active_sessions[last.token]>> ELSE <<>>
    /\ \A t \in issued \cup {Garbage} : ENABLED call_revoke_session(t)
    /\ \A c \in CompanyIds : ENABLED call_revoke_all_sessions(c)

\* a session was created for a tenant whose earlier session a
\* revoke_all_sessions had revoked: the tenant has a revoked and an active one
C17_Witness ==
    /\ last.op = "create_session"
    /\ active_sessions[last.token].is_active
    /\ \E t \in DOMAIN active_sessions :
          /\ active_sessions[t].company_id = last.company_id
          /\ ~active_sessions[t].is_active

\* C20: revoke_all_sessions(t) keeps the stored tokens and every record's
\* company id and creation time, leaves the records of other tenants as they
\* were and changes nothing else; revoke_session(tok) leaves every record but
\* tok's as it was, keeps the company id and creation time of tok's record,
\* and changes nothing when tok is absent.
C20_Step ==
    /\ last'.op = "revoke_all_sessions"
          => /\ DOMAIN active_sessions' = DOMAIN active_sessions
             /\ \A t \in DOMAIN active_sessions :
                   /\ active_sessions'[t].company_id = active_sessions[t].company_id
                   /\ active_sessions'[t].created_at = active_sessions[t].created_at
                   /\ active_sessions[t].company_id # last'.company_id
                         => active_sessions'[t] = active_sessions[t]
             /\ companies' = companies /\ issued' = issued
    /\ last'.op = "revoke_session"
          => /\ DOMAIN active_sessions' = DOMAIN active_sessions
             /\ \A t \in DOMAIN active_sessions :
                   /\ active_sessions'[t].company_id = active_sessions[t].company_id
                   /\ active_sessions'[t].created_at = active_sessions[t].created_at
                   /\ t # last'.token => active_sessions'[t] = active_sessions[t]
             /\ last'.token \notin DOMAIN active_sessions
                   => active_sessions' = active_sessions
             /\ companies' = companies /\ issued' = issued

C20_RevocationTouchesOnlyItsTarget == [][C20_Step]_vars

\* revoke_all_sessions of one tenant left its session revoked and the
\* session of another tenant active
C20_Witness ==
    /\ last.op = "revoke_all_sessions"
    /\ \E t \in DOMAIN active_sessions :
          active_sessions[t].company_id = last.company_id /\ ~active_sessions[t].is_active
    /\ \E t \in DOMAIN active_sessions :
          active_sessions[t].company_id # last.company_id /\ active_sessions[t].is_active

\* revoke_session was called with a token the store does not hold, while it
\* holds an active session
C20_WitnessAbsent ==
    /\ last.op = "revoke_session"
    /\ last.token \notin DOMAIN active_sessions
    /\ \E t \in DOMAIN active_sessions : active_sessions[t].is_active

\* C21: after create_session(t, tok) the store holds under tok a record with
\* company_id = t and is_active = true, whatever was stored under tok before;
\* the call adds no other key and changes no other record; a second call
\* with the same arguments changes nothing but the creation time.
C21_Step ==
    last'.op = "create_session"
       => /\ validate_session(active_sessions', last'.token) # <<>>
          /\ validate_session(active_sessions', last'.token)[1].company_id = last'.company_id
          /\ validate_session(active_sessions', last'.token)[1].is_active
          /\ DOMAIN active_sessions' = DOMAIN active_sessions \cup {last'.token}
          /\ \A t \in DOMAIN active_sessions :
                t # last'.token => active_sessions'[t] = active_sessions[t]
          /\ (/\ last.op = "create_session"
              /\ last.token = last'.token
              /\ last.company_id = last'.company_id)
                => \A t \in DOMAIN active_sessions' :
                      /\ active_sessions'[t].company_id = active_sessions[t].company_id
                      /\ active_sessions'[t].is_active = active_sessions[t].is_active

C21_CreateSessionOverwrites == [][C21_Step]_vars

\* create_session was called, after the second in which the token was made,
\* with a token that was made for another tenant; its record is active
C21_Witness ==
    /\ last.op = "create_session"
    /\ last.token.claims.company_id # last.company_id
    /\ active_sessions[last.token].is_active
    /\ active_sessions[last.token].created_at > last.token.claims.iat * TicksPerSecond

\* C22: once the database is initialised, register_company answers 409 for
\* an e-mail that equals a tenant's after lowercasing and trimming, 400 for a
\* password that fails a strength rule, and otherwise stores a tenant under
\* the lowercased, trimmed e-mail; a rejected registration creates no
\* record and no two tenants share an e-mail.
C22_Step ==
    LET email == lower_strip(last'.email)
        taken == \E r \in companies : r.email = email
    IN  /\ (last'.op = "register" /\ database_db_pool = "Pool")
              => /\ ViolatedRules(last'.password) # {} => last'.status = 400
                 /\ (ViolatedRules(last'.password) = {} /\ taken) => last'.status = 409
                 /\ (ViolatedRules(last'.password) = {} /\ ~taken)
                       => /\ last'.status = 200
                          /\ \E r \in companies' \ companies : r.email = email
                 /\ last'.status # 200 => companies' = companies
        /\ \A r1, r2 \in companies' : r1.email = r2.email => r1 = r2

C22_RegistrationKeepsEmailsUnique == [][C22_Step]_vars

\* C24: once init_database has created the pool, the handlers of api_auth
\* work on it: their db_pool is that pool, a registration and a password
\* change that pass their input checks are not answered 503, and a login
\* looks the tenant up, so that an active tenant's own password is not
\* answered 401.
C24_HandlersUseThePool ==
    (phase = "serving" /\ database_db_pool = "Pool")
       => /\ api_auth_db_pool = database_db_pool
          /\ (last.op = "register" /\ ViolatedRules(last.password) = {})
                => last.status # 503
          /\ (/\ last.op = "change_password"
              /\ last.password # NoPassword
              /\ last.new_password # NoPassword
              /\ ViolatedRules(last.new_password) = {}
              /\ decode_token(last.token, "access").kind = "payload")
                => last.status # 503
          /\ (/\ last.op = "login"
              /\ \E r \in companies : /\ r.email = lower_strip(last.email)
                                      /\ r.is_active
                                      /\ verify_password(last.password, r.password_hash))
                => last.status # 401

\* the operations of the authentication endpoints
EndpointOps == {"login", "refresh", "logout", "change_password", "validate_token"}

\* C25: a session that revoke_session or revoke_all_sessions has set
\* inactive stays stored and inactive through every later login, refresh,
\* logout, change-password and validate-token operation, so that no refresh
\* with its token succeeds again.
C25_Step ==
    last'.op \in EndpointOps
       => /\ \A t \in DOMAIN active_sessions :
                ~active_sessions[t].is_active
                   => /\ t \in DOMAIN active_sessions'
                      /\ ~active_sessions'[t].is_active
          /\ (/\ last'.op = "refresh"
              /\ last'.token \in DOMAIN active_sessions
              /\ ~active_sessions[last'.token].is_active)
                => last'.status # 200

C25_RevocationIsPermanent == [][C25_Step]_vars

\* C29: what decode_token(token, "access"), validate_token and
\* get_current_user answer for a token depends on the token and the time
\* only: a step that leaves the clock alone (a login, a logout, whatever it
\* does to the session store) changes none of these answers, and an access
\* token that validate_token reports valid has not reached its exp, whether
\* or not its tenant still has an active session.
C29_Step ==
    /\ now' = now
          => \A t \in issued \cup {Garbage} :
                /\ decode_token(t, "access")' = decode_token(t, "access")
                /\ validate_token_result(t)' = validate_token_result(t)
                /\ get_current_user_result(t)' = get_current_user_result(t)
    /\ last'.op = "validate_token"
          => last'.answer.valid
                = (/\ CorrectlySigned(last'.token)
                   /\ last'.token.claims.type = "access"
                   /\ now < last'.token.claims.exp * TicksPerSecond
                   /\ fromtimestamp(last'.token.claims.exp) >= now)

C29_AccessTokensIgnoreSessions == [][C29_Step]_vars

\* an access token was reported valid after a logout had revoked every
\* session of its tenant
C29_Witness ==
    /\ last.op = "validate_token"
    /\ last.answer.valid
    /\ DOMAIN active_sessions # {}
    /\ \A t \in DOMAIN active_sessions : ~active_sessions[t].is_active

\* the token was made by create_password_reset_token
IsResetToken(token) == "purpose" \in DOMAIN token.claims

\* C30: decode_token refuses a password-reset token for both expected
\* types; verify_password_reset_token returns None for a login token,
\* returns the e-mail exactly for a correctly signed, unexpired token whose
\* purpose is "password_reset", and returns None without raising for every
\* other token.
C30_ResetAndLoginTokensApart ==
    /\ \A t \in issued :
          IsResetToken(t)
             => /\ decode_token(t, "access").kind # "payload"
                /\ decode_token(t, "refresh").kind # "payload"
    /\ last.op = "verify_password_reset_token"
          => /\ last.answer.kind = "returned"
             /\ IF /\ CorrectlySigned(last.token)
                    /\ IsResetToken(last.token)
                    /\ now < last.token.claims.exp * TicksPerSecond
                THEN last.answer.value = last.token.claims.email
                ELSE last.answer.value = Email("None", "plain")

\* C23: the login of main_production answers 400 when the e-mail or the
\* password is missing and 401 "Invalid credentials" when no active tenant
\* has the e-mail or the password does not verify; neither is answered with
\* a server error.
C23_ProductionLoginClientErrors ==
    last.op = "production_login"
       => /\ (last.email = NoEmail \/ last.password = NoPassword) => last.status = 400
          /\ (/\ last.email # NoEmail
              /\ last.password # NoPassword
              /\ ~\E r \in companies :
                    /\ r.email = lower_strip(last.email)
                    /\ r.is_active
                    /\ verify_password(last.password, r.password_hash))
                => last.status = 401 /\ last.detail = "Invalid credentials"
          /\ last.status # 500

(***************************************************************************)
(* The handlers of api_auth with their db_pool bound to the pool: the      *)
(* module imported once init_database has run, or its db_pool assigned by  *)
(* the importer. (app.py imports it before the pool exists: C24.)          *)
(* The database branch of login_user is followed from await to await:      *)
(* other requests run while it waits for the database.                     *)
(***************************************************************************)
\* the login requests that wait for the database at one time
MaxInflight == 1

\* a second password that meets the strength rules
NewPassword == <<"P", "a", "s", "s", "w", "0", "r", "d", "!">>

\* A login request between two awaits: the row the SELECT returned (none:
\* <<>>), the await it is at and the tokens it has created
Request(email_in, password, user, at, access_token, refresh_token) ==
    [email |-> email_in, password |-> password, user |-> user, at |-> at,
     access_token |-> access_token, refresh_token |-> refresh_token]

\* login_user past the demo branch: "user = await conn.fetchrow(SELECT ...)"
login_fetchrow(email_in, password) ==
    /\ phase = "serving"
    /\ api_auth_db_pool # "None"
    /\ ~(lower_strip(email_in) = DEMO_EMAIL /\ password = DEMO_PASSWORD)
    /\ Cardinality(inflight) < MaxInflight
    /\ LET users == {r \in companies : r.email = lower_strip(email_in) /\ r.is_active}
           user == IF users = {} THEN <<>> ELSE <<CHOOSE r \in users : TRUE>>
       IN  inflight' = inflight \cup
                          {Request(email_in, password, user, "fetchrow", NoToken, NoToken)}
    /\ last' = Op("login_fetchrow", NoToken, email_in, password, 0, "", NoToken, NoToken)
    /\ UNCHANGED <<now, tz, DATABASE_URL, phase, database_db_pool, api_auth_db_pool,
                   companies, active_sessions, issued, advances>>

\* login_user resumed with the row: verify_password, the tokens, create_session
\* and the start of the UPDATE; or the 401 that ends the request
login_create_session(req) ==
    /\ req \in inflight
    /\ req.at = "fetchrow"
    /\ IF req.user # <<>> /\ verify_password(req.password, req.user[1].password_hash)
       THEN LET user == req.user[1]
                token_data == [company_id |-> user.id, email |-> user.email,
                               subscription_plan |-> user.subscription_plan]
                access_token == create_access_token(token_data)
                refresh_token == create_refresh_token(token_data)
            IN  /\ Cardinality(issued \cup {access_token, refresh_token}) <= MaxTokens
                /\ active_sessions' = create_session(active_sessions, user.id, refresh_token)
                /\ inflight' = (inflight \ {req}) \cup
                                  {Request(req.email, req.password, req.user, "execute",
                                           access_token, refresh_token)}
                /\ last' = Op("login_create_session", NoToken, req.email, req.password,
                              0, "", NoToken, refresh_token)
       ELSE /\ inflight' = inflight \ {req}
            /\ last' = Op("login", NoToken, req.email, req.password,
                          InvalidCredentials(lower_strip(req.email)).status,
                          InvalidCredentials(lower_strip(req.email)).detail, NoToken, NoToken)
            /\ UNCHANGED active_sessions
    /\ UNCHANGED <<now, tz, DATABASE_URL, phase, database_db_pool, api_auth_db_pool,
                   companies, issued, advances>>

\* login_user resumed after "await conn.execute(UPDATE ...)": the tokens are
\* returned, or the statement raised and "except Exception" answers 500
login_execute(req, raised) ==
    /\ req \in inflight
    /\ req.at = "execute"
    /\ inflight' = inflight \ {req}
    /\ IF raised
       THEN /\ last' = Op("login", NoToken, req.email, req.password, 500,
                          "Authentication service temporarily unavailable", NoToken, NoToken)
            /\ UNCHANGED issued
       ELSE /\ issued' = issued \cup {req.access_token, req.refresh_token}
            /\ last' = Op("login", NoToken, req.email, req.password, 200, "",
                          req.access_token, req.refresh_token)
    /\ UNCHANGED <<now, tz, DATABASE_URL, phase, database_db_pool, api_auth_db_pool,
                   companies, active_sessions, advances>>

\* The application serving, api_auth's db_pool being the pool init_database
\* created and the demo tenant stored by create_demo_data
InitBound ==
    /\ now = 0
    /\ tz = 0
    /\ DATABASE_URL = TRUE
    /\ phase = "serving"
    /\ database_db_pool = "Pool"
    /\ api_auth_db_pool = "Pool"
    /\ companies \in {create_demo_data(rows, "salt1") : rows \in {{}, EarlierRows}}
    /\ active_sessions = NoSessions
    /\ issued = {}
    /\ advances = 0
    /\ last = Quiet("init_database")
    /\ inflight = {}

\* e-mail and password of the logins that go to the database
BoundLoginInputs ==
    { <<DEMO_EMAIL, StrongPassword>>, <<DEMO_EMAIL, WrongPassword>>,
      <<AcmeEmail, StrongPassword>>, <<UnknownEmail, StrongPassword>> }

\* old and new password of a password change
BoundPasswordChanges ==
    { <<DEMO_PASSWORD, StrongPassword>>, <<StrongPassword, NewPassword>>,
      <<WrongPassword, StrongPassword>> }

\* Logins and password changes that run side by side
NextBound ==
    \/ login_user(Email(DEMO_EMAIL.text, "typed"), DEMO_PASSWORD)
    \/ \E c \in BoundLoginInputs : login_fetchrow(c[1], c[2])
    \/ \E req \in inflight : login_create_session(req)
    \/ \E req \in inflight, raised \in BOOLEAN : login_execute(req, raised)
    \/ \E t \in {u \in issued : u.claims.type = "access"}, c \in BoundPasswordChanges :
          change_password(t, c[1], c[2])

SpecBound == InitBound /\ [][NextBound]_vars

\* C26: a login answered with success was given the password stored for the
\* active tenant of its e-mail: after a successful change_password the old
\* password no longer logs the tenant in, the demo tenant included. (Logins
\* that run from start to end in one step; the interleaved ones are C27's.)
C26_Step ==
    (/\ last'.op = "login"
     /\ last'.status = 200
     /\ inflight' = inflight)
       => \E r \in companies :
             /\ r.email = lower_strip(last'.email)
             /\ r.is_active
             /\ verify_password(last'.password, r.password_hash)
C27_Step ==
    last'.op = "login_create_session"
       => \A req \in inflight' \ inflight :
             \E r \in companies :
                /\ r.id = req.user[1].id
                /\ r.password_hash = req.user[1].password_hash
C28_Step ==
    (last'.op = "login" /\ last'.status \in {401, 500})
       => \A t \in DOMAIN active_sessions' :
             \/ t \in issued'
             \/ \E req \in inflight' : req.refresh_token = t
====
